---- MODULE Spec2Model ----
(***************************************************************************)
(* A model of src/main.py: the three-valued rule engine "Truthifier".      *)
(*                                                                         *)
(* Text (a Python str) is a sequence of one-character strings, so that     *)
(* parsing is done character by character as BoolExpression.__init__ does. *)
(* Positions are the code's 0-based positions; At and Slice translate them *)
(* to the 1-based sequences of TLA+.                                       *)
(***************************************************************************)
EXTENDS Integers, Sequences, FiniteSets, TLC

VARIABLES
    rules,          \* Truthifier.rules: the list of Rule objects
    questions,      \* Truthifier.questions
    facts,          \* Truthifier.facts: fact name -> Truth
    goals_reached,  \* Truthifier.goals_reached: Rule objects, as indices into rules
    pc,             \* where the program is
    question,       \* solve: index into questions of the for loop of line 358
    rule,           \* evaluate_rules: index into rules of the for loop of line 397
    had_change,     \* evaluate_rules: the local had_change
    truth,          \* evaluate_rules: the local truth (line 400)
    calls,          \* how many times solve has called evaluate_rules
    passes,         \* evaluate_rules: iterations of the while loop in this call
    output,         \* what Rule.explain printed, in order, each entry with the
                    \* call and the pass of evaluate_rules that printed it
    expression,     \* the text given to BoolExpression(...)
    tree,           \* the BoolExpression object built from it
    value           \* what BoolExpression.evaluate returned

vars == <<rules, questions, facts, goals_reached, pc, question, rule, had_change,
          truth, calls, passes, output, expression, tree, value>>

engineVars == <<rules, questions, goals_reached, question, rule, had_change,
                truth, calls, passes, output>>

exprVars == <<expression, tree, value>>

(***************************************************************************)
(* Bounds of the model.                                                    *)
(***************************************************************************)
MaxLen == 5        \* longest expression text enumerated character by character
MaxRules == 3      \* longest rule list enumerated from the rule pool

None == "None"

(***************************************************************************)
(* class Truth, class Operator, class Precedence                           *)
(***************************************************************************)
Truth == {"FALSE", "TRUE", "UNKNOWN"}

Operator == [NONE |-> 5, FACT |-> 4, PAREN |-> 3, NOT |-> 2, AND |-> 1, OR |-> 0]

\* Precedence with Operator's numbers: OR below AND.
PrecedenceOrLowest ==
    [NONE |-> 5, FACT |-> 4, PAREN |-> 3, NOT |-> 2, AND |-> 1, OR |-> 0]

Precedence == [NONE |-> 5, FACT |-> 4, PAREN |-> 3, NOT |-> 2, AND |-> 1, OR |-> 1]

\* Precedence.__lt__
PrecedenceLt(self, other) == self < other

\* parse_operator(operator): operators are named by their Operator member.
parse_operator(operator) ==
    IF operator = "!" THEN [op |-> "NOT", prec |-> Precedence.NOT]
    ELSE IF operator = "&" THEN [op |-> "AND", prec |-> Precedence.AND]
    ELSE IF operator = "|" THEN [op |-> "OR", prec |-> Precedence.OR]
    ELSE [op |-> "NONE", prec |-> Precedence.NONE]

(***************************************************************************)
(* Python str operations on sequences of characters.                       *)
(***************************************************************************)
Whitespace == {" "}

\* s[i], i counted from 0
At(s, i) == s[i + 1]

\* s[lo:hi], positions counted from 0
Slice(s, lo, hi) == SubSeq(s, lo + 1, hi)

RECURSIVE LStrip(_)
LStrip(s) == IF s # <<>> /\ Head(s) \in Whitespace THEN LStrip(Tail(s)) ELSE s

RECURSIVE RStrip(_)
RStrip(s) ==
    IF s # <<>> /\ s[Len(s)] \in Whitespace THEN RStrip(SubSeq(s, 1, Len(s) - 1)) ELSE s

\* str.strip()
Strip(s) == RStrip(LStrip(s))

\* ch in s
Contains(s, ch) == \E i \in 1..Len(s) : s[i] = ch

\* s.replace(ch, '')
RECURSIVE Remove(_, _)
Remove(s, ch) ==
    IF s = <<>> THEN <<>>
    ELSE IF Head(s) = ch THEN Remove(Tail(s), ch)
    ELSE <<Head(s)>> \o Remove(Tail(s), ch)

\* s.split("->")
RECURSIVE SplitArrow(_, _)
SplitArrow(s, part) ==
    IF s = <<>> THEN <<part>>
    ELSE IF Len(s) >= 2 /\ s[1] = "-" /\ s[2] = ">"
         THEN <<part>> \o SplitArrow(SubSeq(s, 3, Len(s)), <<>>)
    ELSE SplitArrow(Tail(s), Append(part, Head(s)))

(***************************************************************************)
(* BoolExpression.__init__                                                 *)
(***************************************************************************)
\* A constructor that swallows its error and hands back an empty FACT node.
RaisedSwallowed(what) == [operator |-> "FACT", operand1 |-> <<>>, operand2 |-> None]

\* A constructor that raised: no object is produced.
Raised(what) == [operator |-> "RAISED", operand1 |-> what, operand2 |-> None]

\* A scan that takes operators at any depth of parentheses as candidates.
RECURSIVE ScanFromFlat(_, _, _)
ScanFromFlat(e, i, st) ==
    IF i >= Len(e) THEN st
    ELSE LET ch == At(e, i) IN
         IF ch = "(" THEN ScanFromFlat(e, i + 1, [st EXCEPT !.open_parens = @ + 1])
         ELSE IF ch = ")" THEN
              IF st.open_parens - 1 < 0
              THEN [st EXCEPT !.open_parens = @ - 1, !.raised = TRUE]
              ELSE ScanFromFlat(e, i + 1, [st EXCEPT !.open_parens = @ - 1])
         ELSE LET new == parse_operator(ch) IN
              IF PrecedenceLt(new.prec, st.best_prec)
              THEN ScanFromFlat(e, i + 1,
                                [st EXCEPT !.best_prec = new.prec, !.best_i = i,
                                           !.best_op = new.op])
              ELSE ScanFromFlat(e, i + 1, st)

\* The scan of lines 82-98 from position i on.  st holds the loop's locals;
\* st.raised is set when line 90 raises.
RECURSIVE ScanFrom(_, _, _)
ScanFrom(e, i, st) ==
    IF i >= Len(e) THEN st
    ELSE LET ch == At(e, i) IN
         IF ch = "(" THEN ScanFrom(e, i + 1, [st EXCEPT !.open_parens = @ + 1])
         ELSE IF ch = ")" THEN
              IF st.open_parens - 1 < 0
              THEN [st EXCEPT !.open_parens = @ - 1, !.raised = TRUE]
              ELSE ScanFrom(e, i + 1, [st EXCEPT !.open_parens = @ - 1])
         ELSE IF st.open_parens = 0 THEN
              LET new == parse_operator(ch) IN
              IF PrecedenceLt(new.prec, st.best_prec)
              THEN ScanFrom(e, i + 1,
                            [st EXCEPT !.best_prec = new.prec, !.best_i = i,
                                       !.best_op = new.op])
              ELSE ScanFrom(e, i + 1, st)
         ELSE ScanFrom(e, i + 1, st)

Scan(e) ==
    ScanFrom(e, 0, [open_parens |-> 0, best_prec |-> Precedence.NONE, best_i |-> -1,
                    best_op |-> "NONE", raised |-> FALSE])

\* The operand of a NOT node: the text after the first character (line 132).
NotOperandText(e, best_i) == Slice(e, 1, Len(e))

\* The operand texts of an AND or OR node (lines 136-137).
LeftOperandText(e, best_i) == Slice(e, 0, best_i)

RightOperandText(e, best_i) == Slice(e, best_i + 1, Len(e))

\* A node whose operand constructors may have raised: the exception propagates.
Node(op, operand1, operand2) ==
    IF operand1.operator = "RAISED" THEN operand1
    ELSE IF op \in {"AND", "OR"} /\ operand2.operator = "RAISED" THEN operand2
    ELSE [operator |-> op, operand1 |-> operand1, operand2 |-> operand2]

RECURSIVE BoolExpression(_)
BoolExpression(text) ==
    LET e == Strip(text)
        st == Scan(e)
    IN  IF st.raised THEN Raised("Extra close paren")
        ELSE IF st.open_parens > 0 THEN Raised("Unclosed open paren")
        ELSE IF st.best_i < 0 THEN
             IF e = <<>> THEN Raised("IndexError")
             ELSE IF At(e, 0) = "("
                  THEN Node("PAREN", BoolExpression(Slice(Strip(e), 1, Len(Strip(e)) - 1)),
                            None)
                  ELSE [operator |-> "FACT", operand1 |-> e, operand2 |-> None]
        ELSE IF st.best_op = "NOT"
             THEN Node("NOT", BoolExpression(NotOperandText(e, st.best_i)), None)
             ELSE Node(st.best_op, BoolExpression(LeftOperandText(e, st.best_i)),
                       BoolExpression(RightOperandText(e, st.best_i)))

(***************************************************************************)
(* BoolExpression.list_facts and BoolExpression.evaluate                   *)
(***************************************************************************)
RECURSIVE list_facts(_)
list_facts(self) ==
    IF self.operator = "FACT" THEN {self.operand1}
    ELSE IF self.operator \in {"PAREN", "NOT"} THEN list_facts(self.operand1)
    ELSE list_facts(self.operand1) \cup list_facts(self.operand2)

\* The NOT, AND and OR cases of evaluate, on the operands' values.
EvaluateNot(truth1) ==
    IF truth1 = "TRUE" THEN "FALSE"
    ELSE IF truth1 = "FALSE" THEN "TRUE"
    ELSE "UNKNOWN"

\* AND that gives up on an UNKNOWN first operand.
EvaluateAndShortCircuit(truth1, truth2) ==
    IF truth1 = "UNKNOWN" THEN "UNKNOWN"
    ELSE IF truth1 = "FALSE" THEN "FALSE"
    ELSE truth2

EvaluateAnd(truth1, truth2) ==
    IF truth1 = "TRUE" /\ truth2 = "TRUE" THEN "TRUE"
    ELSE IF truth1 = "FALSE" \/ truth2 = "FALSE" THEN "FALSE"
    ELSE "UNKNOWN"

EvaluateOr(truth1, truth2) ==
    IF truth1 = "TRUE" \/ truth2 = "TRUE" THEN "TRUE"
    ELSE IF truth1 = "FALSE" /\ truth2 = "FALSE" THEN "FALSE"
    ELSE "UNKNOWN"

RECURSIVE Evaluate(_, _)
Evaluate(self, f) ==
    IF self.operator = "FACT" THEN f[self.operand1]
    ELSE IF self.operator = "PAREN" THEN Evaluate(self.operand1, f)
    ELSE IF self.operator = "NOT" THEN EvaluateNot(Evaluate(self.operand1, f))
    ELSE IF self.operator = "AND"
         THEN EvaluateAnd(Evaluate(self.operand1, f), Evaluate(self.operand2, f))
    ELSE EvaluateOr(Evaluate(self.operand1, f), Evaluate(self.operand2, f))

(***************************************************************************)
(* class Rule                                                              *)
(***************************************************************************)
\* Rule.__init__: the object built from a rule string.
Rule(rule_string) ==
    LET parts == SplitArrow(Strip(rule_string), <<>>)
        antecedent_string == parts[1]
        consequent_string == parts[2]
    IN  [rule_string |-> Strip(rule_string),
         antecedent_string |-> antecedent_string,
         consequent_string |-> consequent_string,
         is_negated |-> Contains(consequent_string, "!"),
         is_goal |-> Contains(consequent_string, "$"),
         consequent |-> Strip(Remove(Remove(consequent_string, "!"), "$")),
         antecedent |-> BoolExpression(antecedent_string),
         antecedent_truth |-> "UNKNOWN"]

\* Rule.__init__ raises: the unpacking of line 216 needs exactly two parts, and
\* the antecedent must parse.
RuleRaises(rule_string) ==
    LET parts == SplitArrow(Strip(rule_string), <<>>)
    IN  IF Len(parts) # 2 THEN TRUE ELSE BoolExpression(parts[1]).operator = "RAISED"

\* Rule.truth that never sees a known consequent.
RuleTruthUnchecked(self, f) == "UNKNOWN"

\* Rule.truth
RuleTruth(self, f) == f[self.consequent]

\* Rule.list_facts
RuleListFacts(self) == list_facts(self.antecedent) \cup {self.consequent}

\* The value lines 250-253 write to the consequent.
ConsequentValue(self) == IF self.is_negated THEN "FALSE" ELSE "TRUE"

\* Rule.evaluate read as a biconditional: a FALSE antecedent refutes the consequent.
RuleEvaluateBiconditional(self, f, explain) ==
    IF f[self.consequent] # "UNKNOWN"
    THEN [facts |-> f, truth |-> f[self.consequent], explained |-> FALSE]
    ELSE LET t == Evaluate(self.antecedent, f)
             g == IF t = "TRUE"
                  THEN [f EXCEPT ![self.consequent] = ConsequentValue(self)]
                  ELSE IF t = "FALSE"
                  THEN [f EXCEPT ![self.consequent] =
                                     IF self.is_negated THEN "TRUE" ELSE "FALSE"]
                  ELSE f
         IN  [facts |-> g, truth |-> g[self.consequent],
              explained |-> (t = "TRUE" /\ explain)]

\* Rule.evaluate: the fact table it leaves, the value it returns, and whether it
\* printed an explanation.
RuleEvaluate(self, f, explain) ==
    IF f[self.consequent] # "UNKNOWN"
    THEN [facts |-> f, truth |-> f[self.consequent], explained |-> FALSE]
    ELSE IF self.antecedent_truth # "UNKNOWN"
    THEN [facts |-> f, truth |-> f[self.consequent], explained |-> FALSE]
    ELSE LET t == Evaluate(self.antecedent, f)
             g == IF t = "TRUE"
                  THEN [f EXCEPT ![self.consequent] = ConsequentValue(self)]
                  ELSE f
         IN  [facts |-> g, truth |-> g[self.consequent],
              explained |-> (t = "TRUE" /\ explain)]

\* The orders in which a Python set may be iterated.
Orders(S) == {p \in [1..Cardinality(S) -> S] : \A x \in S : \E i \in DOMAIN p : p[i] = x}

\* Fact lines for every fact of the antecedent, UNKNOWN or not.
ExplainFactsAll(order, f) ==
    [k \in 1..Len(order) |-> [fact_name |-> order[k], truth |-> f[order[k]]]]

\* The fact lines of an explanation (lines 278-281), for one iteration order.
RECURSIVE ExplainFacts(_, _)
ExplainFacts(order, f) ==
    IF order = <<>> THEN <<>>
    ELSE IF f[Head(order)] # "UNKNOWN"
         THEN <<[fact_name |-> Head(order), truth |-> f[Head(order)]]>>
              \o ExplainFacts(Tail(order), f)
         ELSE ExplainFacts(Tail(order), f)

\* Rule.explain, by the Rule object i = rules[i] that printed it, in pass p of
\* call c of evaluate_rules.
Explain(self, i, f, order, c, p) ==
    [rule |-> i,
     call |-> c,
     pass |-> p,
     label |-> IF self.is_goal THEN "GOAL" ELSE "RULE",
     consequent |-> self.consequent,
     truth |-> f[self.consequent],
     negated |-> self.is_negated,
     antecedent_string |-> self.antecedent_string,
     listed |-> ExplainFacts(order, f)]

(***************************************************************************)
(* class Truthifier                                                        *)
(***************************************************************************)
\* Truthifier.load_rules
load_rules(rule_strings) == [i \in 1..Len(rule_strings) |-> Rule(rule_strings[i])]

\* Truthifier.load_facts
load_facts(rs) ==
    [fact \in UNION {RuleListFacts(rs[i]) : i \in 1..Len(rs)} |-> "UNKNOWN"]

\* The inner loop of load_questions for one rule (lines 321-324).
RECURSIVE AddQuestions(_, _, _)
AddQuestions(qs, order, consequents) ==
    IF order = <<>> THEN qs
    ELSE LET fact == Head(order) IN
         IF fact \notin consequents /\ ~(\E k \in 1..Len(qs) : qs[k] = fact)
         THEN AddQuestions(Append(qs, fact), Tail(order), consequents)
         ELSE AddQuestions(qs, Tail(order), consequents)

RECURSIVE QuestionsFrom(_, _, _, _)
QuestionsFrom(rs, i, qs, consequents) ==
    IF i > Len(rs) THEN {qs}
    ELSE UNION {QuestionsFrom(rs, i + 1, AddQuestions(qs, order, consequents), consequents) :
                order \in Orders(list_facts(rs[i].antecedent))}

\* Truthifier.load_questions: every list it can build (list_facts returns a set,
\* whose iteration order Python leaves open).
load_questions(rs) ==
    QuestionsFrom(rs, 1, <<>>, {rs[i].consequent : i \in 1..Len(rs)})

\* solve, lines 358-360: the next question from index i on that is UNKNOWN;
\* 0 when the for loop is exhausted.
RECURSIVE NextQuestion(_, _, _)
NextQuestion(qs, f, i) ==
    IF i > Len(qs) THEN 0
    ELSE IF f[qs[i]] = "UNKNOWN" THEN i
    ELSE NextQuestion(qs, f, i + 1)

\* solve, lines 367-374: the fact table after a y, n or ? answer.
AnswerFacts(f, name, answer) ==
    IF answer = "y" THEN [f EXCEPT ![name] = "TRUE"]
    ELSE IF answer = "n" THEN [f EXCEPT ![name] = "FALSE"]
    ELSE f

\* solve passes EXPLAIN = True to evaluate_rules (line 346).
EXPLAIN == TRUE

\* rule in goals_reached (Rule defines no __eq__: identity)
InGoals(i, goals) == \E k \in 1..Len(goals) : goals[k] = i

\* Appending every rule that resolved to TRUE, goal or not.
AppendGoalAnyRule(self, i, t, goals) ==
    IF t = "TRUE" /\ ~InGoals(i, goals) THEN Append(goals, i) ELSE goals

\* Appending only the first goal ever reached.
AppendGoalFirstOnly(self, i, t, goals) ==
    IF self.is_goal /\ t = "TRUE" /\ goals = <<>> THEN Append(goals, i) ELSE goals

\* Inserting a new goal at the front.
AppendGoalInFront(self, i, t, goals) ==
    IF self.is_goal /\ t = "TRUE" /\ ~InGoals(i, goals) THEN <<i>> \o goals ELSE goals

\* evaluate_rules, lines 409-414
AppendGoal(self, i, t, goals) ==
    IF self.is_goal /\ t = "TRUE" /\ ~InGoals(i, goals) THEN Append(goals, i) ELSE goals

\* Lines 403-404 run for every evaluated rule.
NowHasValueAlways(t) == TRUE

\* evaluate_rules, line 401: the rule now has a value
NowHasValue(t) == t # "UNKNOWN"

\* A single pass, whatever changed.
LoopOnce(changed) == FALSE

\* evaluate_rules, line 392: while had_change
LoopAgain(changed) == changed

\* The counter passes is capped: no call is followed beyond MaxPasses passes.
MaxPasses == MaxRules + 3

(***************************************************************************)
(* The rule strings the engine is loaded with.                             *)
(***************************************************************************)
\* "has fur -> mammal"
RuleMammal ==
    <<"h", "a", "s", " ", "f", "u", "r", " ", "-", ">", " ", "m", "a", "m", "m", "a",
    "l">>

\* "mammal -> !reptile"
RuleNotReptile ==
    <<"m", "a", "m", "m", "a", "l", " ", "-", ">", " ", "!", "r", "e", "p", "t", "i",
    "l", "e">>

\* "mammal & arboreal -> $squirrel"
RuleSquirrel ==
    <<"m", "a", "m", "m", "a", "l", " ", "&", " ", "a", "r", "b", "o", "r", "e", "a",
    "l", " ", "-", ">", " ", "$", "s", "q", "u", "i", "r", "r", "e", "l">>

\* "mammal & arboreal -> $platypus"
RulePlatypus ==
    <<"m", "a", "m", "m", "a", "l", " ", "&", " ", "a", "r", "b", "o", "r", "e", "a",
    "l", " ", "-", ">", " ", "$", "p", "l", "a", "t", "y", "p", "u", "s">>

\* "has fur -> !mammal"
RuleNotMammal ==
    <<"h", "a", "s", " ", "f", "u", "r", " ", "-", ">", " ", "!", "m", "a", "m", "m",
    "a", "l">>

\* "has fur | !arboreal -> $platypus"
RulePlatypusToo ==
    <<"h", "a", "s", " ", "f", "u", "r", " ", "|", " ", "!", "a", "r", "b", "o", "r",
    "e", "a", "l", " ", "-", ">", " ", "$", "p", "l", "a", "t", "y", "p", "u", "s">>

RulePool == {RuleMammal, RuleNotReptile, RuleSquirrel, RulePlatypus, RuleNotMammal,
             RulePlatypusToo}

\* Every list of at most MaxRules rule strings of the pool.
RuleBases == UNION {[1..n -> RulePool] : n \in 0..MaxRules}

(***************************************************************************)
(* The program: Truthifier(rule_strings) followed by solve().              *)
(***************************************************************************)
Init ==
    \E rule_strings \in RuleBases :
        /\ \A i \in 1..Len(rule_strings) : ~RuleRaises(rule_strings[i])
        /\ rules = load_rules(rule_strings)
        /\ facts = load_facts(rules)
        /\ questions \in load_questions(rules)
        /\ goals_reached = <<>>
        /\ question = NextQuestion(questions, facts, 1)
        /\ pc = IF question = 0 THEN "done" ELSE "input"
        /\ rule = 0
        /\ had_change = FALSE
        /\ truth = None
        /\ calls = 0
        /\ passes = 0
        /\ output = <<>>
        /\ expression = <<>>
        /\ tree = None
        /\ value = None

\* solve, lines 363-374 and 383, 391-394: a y, n or ? answer is stored and
\* evaluate_rules starts its first pass.
Answer ==
    /\ pc = "input"
    /\ \E answer \in {"y", "n", "?"} :
           facts' = AnswerFacts(facts, questions[question], answer)
    /\ pc' = "evaluate_rules"
    /\ had_change' = FALSE
    /\ rule' = 1
    /\ calls' = calls + 1
    /\ passes' = 1
    /\ UNCHANGED <<rules, questions, goals_reached, question, truth, output>>
    /\ UNCHANGED exprVars

\* solve, lines 364-366: q
Quit ==
    /\ pc = "input"
    /\ pc' = "done"
    /\ UNCHANGED <<facts, engineVars, exprVars>>

\* solve, lines 375-380: d prints the questions, rules and facts and asks again;
\* nothing of the program's state changes
Dump ==
    /\ pc = "input"
    /\ UNCHANGED vars

\* The loop body without the "only UNKNOWN" gates of lines 399 and 235: every rule
\* whose antecedent is TRUE writes its consequent.
EvaluateRuleUngated ==
    /\ pc = "evaluate_rules"
    /\ rule <= Len(rules)
    /\ LET self == rules[rule]
           t == Evaluate(self.antecedent, facts)
       IN  IF t = "TRUE"
           THEN /\ facts' = [facts EXCEPT ![self.consequent] = ConsequentValue(self)]
                /\ truth' = ConsequentValue(self)
                /\ had_change' = TRUE
                /\ goals_reached' = AppendGoal(self, rule, truth', goals_reached)
                /\ output' = output
           ELSE /\ truth' = facts[self.consequent]
                /\ UNCHANGED <<facts, output, had_change, goals_reached>>
    /\ rule' = rule + 1
    /\ UNCHANGED <<rules, questions, pc, question, calls, passes>>
    /\ UNCHANGED exprVars

\* evaluate_rules, lines 397-414: the body of the for loop for rules[rule]
EvaluateRule ==
    /\ pc = "evaluate_rules"
    /\ rule <= Len(rules)
    /\ LET self == rules[rule]
           res == RuleEvaluate(self, facts, EXPLAIN)
       IN  IF RuleTruth(self, facts) = "UNKNOWN"
           THEN /\ truth' = res.truth
                /\ IF res.explained
                   THEN \E order \in Orders(list_facts(self.antecedent)) :
                            output' = Append(output,
                                             Explain(self, rule, res.facts, order, calls, passes))
                   ELSE output' = output
                /\ IF NowHasValue(res.truth)
                   THEN /\ facts' = [res.facts EXCEPT ![self.consequent] = res.truth]
                        /\ had_change' = TRUE
                        /\ goals_reached' = AppendGoal(self, rule, res.truth, goals_reached)
                   ELSE /\ facts' = res.facts
                        /\ UNCHANGED <<had_change, goals_reached>>
           ELSE UNCHANGED <<facts, truth, output, had_change, goals_reached>>
    /\ rule' = rule + 1
    /\ UNCHANGED <<rules, questions, pc, question, calls, passes>>
    /\ UNCHANGED exprVars

\* evaluate_rules, lines 392-394: something changed, so another pass starts
NextPass ==
    /\ pc = "evaluate_rules"
    /\ rule > Len(rules)
    /\ LoopAgain(had_change)
    /\ passes < MaxPasses
    /\ had_change' = FALSE
    /\ rule' = 1
    /\ passes' = passes + 1
    /\ UNCHANGED <<rules, questions, facts, goals_reached, pc, question, truth, calls,
                   output>>
    /\ UNCHANGED exprVars

\* A return of evaluate_rules after which solve asks on although a goal was reached.
ReturnAndAskOn ==
    /\ pc = "evaluate_rules"
    /\ rule > Len(rules)
    /\ ~LoopAgain(had_change)
    /\ question' = NextQuestion(questions, facts, question + 1)
    /\ pc' = IF question' = 0 THEN "done" ELSE "input"
    /\ UNCHANGED <<rules, questions, facts, goals_reached, rule, had_change, truth,
                   calls, passes, output>>
    /\ UNCHANGED exprVars

\* evaluate_rules returns (line 392 with had_change False); solve, lines 386-387
\* and 358-360: stop at a goal, else go to the next UNKNOWN question.
Return ==
    /\ pc = "evaluate_rules"
    /\ rule > Len(rules)
    /\ ~LoopAgain(had_change)
    /\ question' = IF Len(goals_reached) > 0 THEN question
                   ELSE NextQuestion(questions, facts, question + 1)
    /\ pc' = IF Len(goals_reached) > 0 \/ question' = 0 THEN "done" ELSE "input"
    /\ UNCHANGED <<rules, questions, facts, goals_reached, rule, had_change, truth,
                   calls, passes, output>>
    /\ UNCHANGED exprVars

Next == Answer \/ Quit \/ Dump \/ EvaluateRule \/ NextPass \/ Return

Spec == Init /\ [][Next]_vars

\* A step of evaluate_rules: the interpreter takes the next one whenever there is
\* one.  Answers, on the other hand, may never come.
EvaluateRulesStep == EvaluateRule \/ NextPass \/ Return

FairSpec == Spec /\ WF_vars(EvaluateRulesStep)

(***************************************************************************)
(* BoolExpression on its own: an expression text is parsed, a fact table   *)
(* for its facts is chosen, and the expression is evaluated on it.         *)
(***************************************************************************)
Alphabet == {"a", "b", "c", " ", "&", "|", "!", "(", ")"}

\* "x o1 y o2 z": a chain of two operators outside parentheses
Chain(x, o1, y, o2, z) == <<x, " ", o1, " ", y, " ", o2, " ", z>>

ChainTexts == {Chain("a", o1, "b", o2, "c") : o1, o2 \in {"&", "|"}}

\* "!(a & b)"
NotParenAB == <<"!", "(", "a", " ", "&", " ", "b", ")">>

\* "a !b"
ANotB == <<"a", " ", "!", "b">>

\* Every text of at most MaxLen characters, the chains, and the two texts above.
Texts == UNION {[1..n -> Alphabet] : n \in 0..MaxLen} \cup ChainTexts \cup {NotParenAB, ANotB}

InitExpr ==
    /\ expression \in Texts
    /\ tree = None
    /\ value = None
    /\ pc = "text"
    /\ facts = <<>>
    /\ rules = <<>>
    /\ questions = <<>>
    /\ goals_reached = <<>>
    /\ question = 0
    /\ rule = 0
    /\ had_change = FALSE
    /\ truth = None
    /\ calls = 0
    /\ passes = 0
    /\ output = <<>>

\* BoolExpression(expression)
Construct ==
    /\ pc = "text"
    /\ tree' = BoolExpression(expression)
    /\ pc' = IF tree'.operator = "RAISED" THEN "raised" ELSE "constructed"
    /\ UNCHANGED <<facts, engineVars, expression, value>>

\* A fact table with an entry for every fact of the expression.
ChooseFacts ==
    /\ pc = "constructed"
    /\ facts' \in [list_facts(tree) -> Truth]
    /\ pc' = "loaded"
    /\ UNCHANGED <<engineVars, exprVars>>

\* tree.evaluate(facts)
EvaluateExpression ==
    /\ pc = "loaded"
    /\ value' = Evaluate(tree, facts)
    /\ pc' = "evaluated"
    /\ UNCHANGED <<facts, engineVars, expression, tree>>

NextExpr == Construct \/ ChooseFacts \/ EvaluateExpression

ExprSpec == InitExpr /\ [][NextExpr]_vars

(***************************************************************************)
(* evaluate_rules as a function, and a driver that uses the Truthifier as  *)
(* a library: it writes answers into the fact table and calls              *)
(* evaluate_rules(False) when it likes.                                    *)
(***************************************************************************)
\* evaluate_rules, lines 391-414, without explanations: rule i of pass p is next,
\* and the function's value is what the call leaves.
RECURSIVE EvaluateRulesFrom(_, _, _, _, _, _)
EvaluateRulesFrom(rs, i, f, goals, changed, p) ==
    IF i > Len(rs)
    THEN IF LoopAgain(changed) /\ p < MaxPasses
         THEN EvaluateRulesFrom(rs, 1, f, goals, FALSE, p + 1)
         ELSE [facts |-> f, goals_reached |-> goals, passes |-> p]
    ELSE LET self == rs[i]
             res == RuleEvaluate(self, f, FALSE)
         IN  IF RuleTruth(self, f) = "UNKNOWN"
             THEN IF NowHasValue(res.truth)
                  THEN EvaluateRulesFrom(rs, i + 1,
                                         [res.facts EXCEPT ![self.consequent] = res.truth],
                                         AppendGoal(self, i, res.truth, goals), TRUE, p)
                  ELSE EvaluateRulesFrom(rs, i + 1, res.facts, goals, changed, p)
             ELSE EvaluateRulesFrom(rs, i + 1, f, goals, changed, p)

\* Truthifier.evaluate_rules(False) on rule list rs, fact table f and goal list goals
evaluate_rules(rs, f, goals) == EvaluateRulesFrom(rs, 1, f, goals, FALSE, 1)

\* Truthifier(rule_strings), not followed by solve()
InitCall ==
    \E rule_strings \in RuleBases :
        /\ \A i \in 1..Len(rule_strings) : ~RuleRaises(rule_strings[i])
        /\ rules = load_rules(rule_strings)
        /\ facts = load_facts(rules)
        /\ questions \in load_questions(rules)
        /\ goals_reached = <<>>
        /\ question = 0
        /\ pc = "facts"
        /\ rule = 0
        /\ had_change = FALSE
        /\ truth = None
        /\ calls = 0
        /\ passes = 0
        /\ output = <<>>
        /\ expression = <<>>
        /\ tree = None
        /\ value = None

\* The driver answers an open question: self.facts[question] = Truth.TRUE or
\* Truth.FALSE, as lines 367-371 do, for any question of the list.
SetFact ==
    /\ pc \in {"facts", "returned"}
    /\ \E q \in 1..Len(questions) :
           /\ facts[questions[q]] = "UNKNOWN"
           /\ question' = q
           /\ \E answer \in {"y", "n"} :
                  facts' = AnswerFacts(facts, questions[q], answer)
    /\ pc' = "facts"
    /\ UNCHANGED <<rules, questions, goals_reached, rule, had_change, truth, calls,
                   passes, output>>
    /\ UNCHANGED exprVars

\* A whole call evaluate_rules(False)
EvaluateRulesCall ==
    /\ pc = "facts"
    /\ \E res \in {evaluate_rules(rules, facts, goals_reached)} :
           /\ facts' = res.facts
           /\ goals_reached' = res.goals_reached
           /\ passes' = res.passes
    /\ calls' = calls + 1
    /\ pc' = "returned"
    /\ UNCHANGED <<rules, questions, question, rule, had_change, truth, output>>
    /\ UNCHANGED exprVars

NextCall == SetFact \/ EvaluateRulesCall

CallSpec == InitCall /\ [][NextCall]_vars

\* No two rules of the list have the same consequent.
DistinctConsequents ==
    \A i, j \in 1..Len(rules) : i # j => rules[i].consequent # rules[j].consequent

\* evaluate_rules as a function of the rule list and the fact table: any list of
\* rules with different consequents, any table over the facts of the rules, then
\* one call.
InitTable ==
    \E rule_strings \in RuleBases :
        /\ \A i \in 1..Len(rule_strings) : ~RuleRaises(rule_strings[i])
        /\ rules = load_rules(rule_strings)
        /\ DistinctConsequents
        /\ facts \in [DOMAIN load_facts(rules) -> Truth]
        /\ questions \in load_questions(rules)
        /\ goals_reached = <<>>
        /\ question = 0
        /\ pc = "facts"
        /\ rule = 0
        /\ had_change = FALSE
        /\ truth = None
        /\ calls = 0
        /\ passes = 0
        /\ output = <<>>
        /\ expression = <<>>
        /\ tree = None
        /\ value = None

TableSpec == InitTable /\ [][EvaluateRulesCall]_vars

(***************************************************************************)
(* The main program: Truthifier(rule_strings) with the rule base of lines  *)
(* 430-444, and solve() in steps of one answer each.                       *)
(***************************************************************************)
\* rule_strings, lines 430-444: the rule base the program ships with
rule_strings ==
    <<
      \* "has fur -> mammal"
      <<"h", "a", "s", " ", "f", "u", "r", " ", "-", ">", " ", "m", "a", "m", "m", "a",
        "l">>,
      \* "mammal -> !reptile"
      <<"m", "a", "m", "m", "a", "l", " ", "-", ">", " ", "!", "r", "e", "p", "t", "i",
        "l", "e">>,
      \* "scaled & breathes water -> fish"
      <<"s", "c", "a", "l", "e", "d", " ", "&", " ", "b", "r", "e", "a", "t", "h", "e",
        "s", " ", "w", "a", "t", "e", "r", " ", "-", ">", " ", "f", "i", "s", "h">>,
      \* "scaled & !breathes water -> reptile"
      <<"s", "c", "a", "l", "e", "d", " ", "&", " ", "!", "b", "r", "e", "a", "t", "h",
        "e", "s", " ", "w", "a", "t", "e", "r", " ", "-", ">", " ", "r", "e", "p", "t",
        "i", "l", "e">>,
      \* "mammal & lays eggs -> $platypus"
      <<"m", "a", "m", "m", "a", "l", " ", "&", " ", "l", "a", "y", "s", " ", "e", "g",
        "g", "s", " ", "-", ">", " ", "$", "p", "l", "a", "t", "y", "p", "u", "s">>,
      \* "mammal & looks like a mad scientist experiment -> $platypus"
      <<"m", "a", "m", "m", "a", "l", " ", "&", " ", "l", "o", "o", "k", "s", " ", "l",
        "i", "k", "e", " ", "a", " ", "m", "a", "d", " ", "s", "c", "i", "e", "n", "t",
        "i", "s", "t", " ", "e", "x", "p", "e", "r", "i", "m", "e", "n", "t", " ", "-",
        ">", " ", "$", "p", "l", "a", "t", "y", "p", "u", "s">>,
      \* "mammal & arboreal -> $squirrel"
      <<"m", "a", "m", "m", "a", "l", " ", "&", " ", "a", "r", "b", "o", "r", "e", "a",
        "l", " ", "-", ">", " ", "$", "s", "q", "u", "i", "r", "r", "e", "l">>,
      \* "fish & !many arms -> $coelacanth"
      <<"f", "i", "s", "h", " ", "&", " ", "!", "m", "a", "n", "y", " ", "a", "r", "m",
        "s", " ", "-", ">", " ", "$", "c", "o", "e", "l", "a", "c", "a", "n", "t", "h">>,
      \* "reptile & !shelled -> $alligator"
      <<"r", "e", "p", "t", "i", "l", "e", " ", "&", " ", "!", "s", "h", "e", "l", "l",
        "e", "d", " ", "-", ">", " ", "$", "a", "l", "l", "i", "g", "a", "t", "o", "r">>,
      \* "mammal & ridiculously long neck -> $giraffe"
      <<"m", "a", "m", "m", "a", "l", " ", "&", " ", "r", "i", "d", "i", "c", "u", "l",
        "o", "u", "s", "l", "y", " ", "l", "o", "n", "g", " ", "n", "e", "c", "k", " ",
        "-", ">", " ", "$", "g", "i", "r", "a", "f", "f", "e">>,
      \* "breathes water & many arms -> $squid"
      <<"b", "r", "e", "a", "t", "h", "e", "s", " ", "w", "a", "t", "e", "r", " ", "&",
        " ", "m", "a", "n", "y", " ", "a", "r", "m", "s", " ", "-", ">", " ", "$", "s",
        "q", "u", "i", "d">>,
      \* "(mammal & carnivore) | (mammal & striped) -> $tiger"
      <<"(", "m", "a", "m", "m", "a", "l", " ", "&", " ", "c", "a", "r", "n", "i", "v",
        "o", "r", "e", ")", " ", "|", " ", "(", "m", "a", "m", "m", "a", "l", " ", "&",
        " ", "s", "t", "r", "i", "p", "e", "d", ")", " ", "-", ">", " ", "$", "t", "i",
        "g", "e", "r">>,
      \* "scaled & !breathes water & shelled -> $tortoise"
      <<"s", "c", "a", "l", "e", "d", " ", "&", " ", "!", "b", "r", "e", "a", "t", "h",
        "e", "s", " ", "w", "a", "t", "e", "r", " ", "&", " ", "s", "h", "e", "l", "l",
        "e", "d", " ", "-", ">", " ", "$", "t", "o", "r", "t", "o", "i", "s", "e">>
    >>

\* expert = Truthifier(rule_strings), line 450
InitShipped ==
    /\ rules = load_rules(rule_strings)
    /\ facts = load_facts(rules)
    /\ questions \in load_questions(rules)
    /\ goals_reached = <<>>
    /\ question = NextQuestion(questions, facts, 1)
    /\ pc = IF question = 0 THEN "done" ELSE "input"
    /\ rule = 0
    /\ had_change = FALSE
    /\ truth = None
    /\ calls = 0
    /\ passes = 0
    /\ output = <<>>
    /\ expression = <<>>
    /\ tree = None
    /\ value = None

\* A solve that never sees that a goal was reached.
GoalReachedNever(goals) == FALSE

\* solve, line 386: a goal was reached
GoalReached(goals) == Len(goals) > 0

\* solve, lines 363-374 and 383-387, then 358-360: a y, n or ? answer is stored,
\* evaluate_rules runs until it returns, and solve stops at a goal or goes to the
\* next UNKNOWN question.  The explanations the call prints are not recorded.
AnswerAndEvaluate ==
    /\ pc = "input"
    /\ \E answer \in {"y", "n", "?"} :
       \E res \in {evaluate_rules(rules, AnswerFacts(facts, questions[question], answer),
                                  goals_reached)} :
               /\ facts' = res.facts
               /\ goals_reached' = res.goals_reached
               /\ passes' = res.passes
               /\ question' = IF GoalReached(res.goals_reached) THEN question
                              ELSE NextQuestion(questions, res.facts, question + 1)
               /\ pc' = IF GoalReached(res.goals_reached) \/ question' = 0
                        THEN "done" ELSE "input"
    /\ calls' = calls + 1
    /\ UNCHANGED <<rules, questions, rule, had_change, truth, output>>
    /\ UNCHANGED exprVars

NextShipped == AnswerAndEvaluate \/ Quit \/ Dump

ShippedSpec == InitShipped /\ [][NextShipped]_vars

(***************************************************************************)
(* What the properties below talk about.                                   *)
(***************************************************************************)
\* "has fur"
HasFur == <<"h", "a", "s", " ", "f", "u", "r">>

\* "mammal"
Mammal == <<"m", "a", "m", "m", "a", "l">>

\* "arboreal"
Arboreal == <<"a", "r", "b", "o", "r", "e", "a", "l">>

\* "squirrel"
Squirrel == <<"s", "q", "u", "i", "r", "r", "e", "l">>

\* "reptile"
Reptile == <<"r", "e", "p", "t", "i", "l", "e">>

\* The rule strings the engine was loaded with.
RuleStrings == [i \in 1..Len(rules) |-> rules[i].rule_string]

\* evaluate_rules has been called and has returned; the fact table is the one it left.
Returned == pc \in {"input", "done"} /\ calls >= 1

\* The value of rule i's antecedent on the current fact table.
AntecedentNow(i) == Evaluate(rules[i].antecedent, facts)

\* Rule i printed an explanation: its own evaluation resolved its consequent.
Fired(i) == \E k \in 1..Len(output) : output[k].rule = i

FiringOf(i) == output[CHOOSE k \in 1..Len(output) : output[k].rule = i]

\* Rules i and j have the same consequent and opposite negation flags.
Opposed(i, j) ==
    /\ rules[i].consequent = rules[j].consequent
    /\ rules[i].is_negated # rules[j].is_negated

Fact(name) == [operator |-> "FACT", operand1 |-> name, operand2 |-> None]

Binary(op, left, right) == [operator |-> op, operand1 |-> left, operand2 |-> right]

OperatorOf(ch) == IF ch = "&" THEN "AND" ELSE "OR"

(***************************************************************************)
(* C1.  Monotonicity: in no step of a run of solve does an entry of the    *)
(* fact table that is not UNKNOWN change, whether the step is an answer or *)
(* the evaluation of a rule.                                               *)
(***************************************************************************)
C1_Monotonic ==
    [][\A name \in DOMAIN facts :
           facts[name] # "UNKNOWN" => facts'[name] = facts[name]]_vars

\* Two rules with one consequent and opposite negation flags both have a TRUE
\* antecedent, and evaluate_rules has run on them.
C1_Witness ==
    /\ Returned
    /\ \E i, j \in 1..Len(rules) :
           /\ Opposed(i, j)
           /\ AntecedentNow(i) = "TRUE"
           /\ AntecedentNow(j) = "TRUE"
           /\ facts[rules[i].consequent] # "UNKNOWN"

(***************************************************************************)
(* C2.  Fixed point: when evaluate_rules has returned, no rule has an      *)
(* UNKNOWN consequent and a TRUE antecedent; with "has fur -> mammal" and  *)
(* "mammal -> !reptile" in either order and has fur TRUE, the one call     *)
(* leaves mammal TRUE and reptile FALSE.                                   *)
(***************************************************************************)
C2_FixedPoint ==
    Returned =>
        /\ \A i \in 1..Len(rules) :
               ~(facts[rules[i].consequent] = "UNKNOWN" /\ AntecedentNow(i) = "TRUE")
        /\ (/\ RuleStrings \in {<<RuleMammal, RuleNotReptile>>,
                                <<RuleNotReptile, RuleMammal>>}
            /\ facts[HasFur] = "TRUE")
           => (calls = 1 /\ facts[Mammal] = "TRUE" /\ facts[Reptile] = "FALSE")

\* The two rules loaded in reverse order, resolved by one call in three passes.
C2_Witness ==
    /\ Returned
    /\ RuleStrings = <<RuleNotReptile, RuleMammal>>
    /\ facts[HasFur] = "TRUE"
    /\ facts[Reptile] = "FALSE"
    /\ passes = 3

(***************************************************************************)
(* C3.  As claimed: "a & b | c" parses as OR(AND(a, b), c).                *)
(***************************************************************************)
C3_Original ==
    (pc # "text" /\ expression = Chain("a", "&", "b", "|", "c"))
    => tree = Binary("OR", Binary("AND", Fact(<<"a">>), Fact(<<"b">>)), Fact(<<"c">>))

(***************************************************************************)
(* C3, amended.  A chain x o1 y o2 z of & and | outside parentheses is     *)
(* split at its leftmost operator, so it parses as o1(x, o2(y, z)):        *)
(* "a & b | c" is AND(a, OR(b, c)).  With and without spaces around the    *)
(* operators.                                                              *)
(***************************************************************************)
C3_LeftmostSplit ==
    pc # "text" =>
        \A o1, o2 \in {"&", "|"} :
            /\ expression = Chain("a", o1, "b", o2, "c")
               => tree = Binary(OperatorOf(o1), Fact(<<"a">>),
                                Binary(OperatorOf(o2), Fact(<<"b">>), Fact(<<"c">>)))
            /\ \A x, y, z \in {"a", "b", "c"} :
                   expression = <<x, o1, y, o2, z>>
                   => tree = Binary(OperatorOf(o1), Fact(<<x>>),
                                    Binary(OperatorOf(o2), Fact(<<y>>), Fact(<<z>>)))

\* "a & b | c" has been parsed, and its top node is the AND.
C3_Witness ==
    /\ pc = "constructed"
    /\ expression = Chain("a", "&", "b", "|", "c")
    /\ tree.operator = "AND"
    /\ tree.operand2.operator = "OR"

(***************************************************************************)
(* C4.  As claimed: after evaluate_rules, every goal rule whose consequent *)
(* is TRUE is in goals_reached.                                            *)
(***************************************************************************)
C4_Original ==
    Returned =>
        \A i \in 1..Len(rules) :
            (rules[i].is_goal /\ facts[rules[i].consequent] = "TRUE")
            => InGoals(i, goals_reached)

(***************************************************************************)
(* C4, amended.  After evaluate_rules, goals_reached holds exactly the     *)
(* goal rules whose own evaluation made their consequent TRUE; a goal rule *)
(* whose consequent was made TRUE by another rule is not in it.            *)
(***************************************************************************)
C4_FiredGoals ==
    Returned =>
        \A i \in 1..Len(rules) :
            InGoals(i, goals_reached)
            <=> (rules[i].is_goal /\ facts[rules[i].consequent] = "TRUE" /\ Fired(i))

\* A goal rule fired and is in goals_reached; another goal rule with the same
\* consequent, which is now TRUE, did not fire and is not.
C4_Witness ==
    /\ Returned
    /\ Len(goals_reached) = 1
    /\ Fired(goals_reached[1])
    /\ \E i \in 1..Len(rules) :
           /\ rules[i].is_goal
           /\ facts[rules[i].consequent] = "TRUE"
           /\ ~Fired(i)
           /\ ~InGoals(i, goals_reached)

(***************************************************************************)
(* C5.  goals_reached never holds a Rule object twice, nor two rules with  *)
(* the same consequent name.                                               *)
(***************************************************************************)
C5_NoDuplicates ==
    \A j, k \in 1..Len(goals_reached) :
        j # k =>
            /\ goals_reached[j] # goals_reached[k]
            /\ rules[goals_reached[j]].consequent # rules[goals_reached[k]].consequent

\* Two goal rules share a consequent, both antecedents are TRUE, and one of them
\* is in goals_reached.
C5_Witness ==
    /\ Returned
    /\ \E i, j \in 1..Len(rules) :
           /\ i # j
           /\ rules[i].is_goal
           /\ rules[j].is_goal
           /\ rules[i].consequent = rules[j].consequent
           /\ AntecedentNow(i) = "TRUE"
           /\ AntecedentNow(j) = "TRUE"
           /\ InGoals(i, goals_reached)

(***************************************************************************)
(* C6.  Termination: every call of evaluate_rules returns.                 *)
(***************************************************************************)
C6_Terminates == (pc = "evaluate_rules") ~> (pc # "evaluate_rules")

\* A call that needed three passes has returned.
C6_Witness == Returned /\ passes >= 3

(***************************************************************************)
(* C7.  As claimed: a call of evaluate_rules makes at most as many passes  *)
(* as there are rules.                                                     *)
(***************************************************************************)
C7_Original == passes <= Len(rules)

(***************************************************************************)
(* C7, amended.  A call of evaluate_rules makes at most one pass more than *)
(* there are rules (the last pass is the one that changes nothing).        *)
(***************************************************************************)
C7_PassBound == passes <= Len(rules) + 1

\* A call over two or more rules that made one pass more than there are rules.
C7_Witness == Returned /\ Len(rules) >= 2 /\ passes = Len(rules) + 1

(***************************************************************************)
(* C8.  Frame of Rule.evaluate.  Called on a known consequent it changes   *)
(* nothing.  In every step in which evaluate_rules calls it: if the        *)
(* antecedent is TRUE, the fact table changes in the rule's consequent     *)
(* alone, to FALSE if negated and else TRUE; if the antecedent is FALSE or *)
(* UNKNOWN, the fact table is unchanged and UNKNOWN is returned.           *)
(***************************************************************************)
C8_Frame ==
    [][/\ \A i \in 1..Len(rules) :
              facts[rules[i].consequent] # "UNKNOWN"
              => RuleEvaluate(rules[i], facts, EXPLAIN).facts = facts
       /\ (/\ pc = "evaluate_rules"
           /\ rule <= Len(rules)
           /\ rule' = rule + 1
           /\ facts[rules[rule].consequent] = "UNKNOWN")
          => IF AntecedentNow(rule) = "TRUE"
             THEN /\ facts' = [facts EXCEPT ![rules[rule].consequent] =
                                  IF rules[rule].is_negated THEN "FALSE" ELSE "TRUE"]
                  /\ truth' = facts'[rules[rule].consequent]
             ELSE /\ facts' = facts
                  /\ truth' = "UNKNOWN"]_vars

\* A negated rule has set its consequent to FALSE, and a rule with a FALSE
\* antecedent has left its consequent UNKNOWN.
C8_Witness ==
    /\ Returned
    /\ \E i, j \in 1..Len(rules) :
           /\ rules[i].is_negated
           /\ Fired(i)
           /\ facts[rules[i].consequent] = "FALSE"
           /\ AntecedentNow(j) = "FALSE"
           /\ facts[rules[j].consequent] = "UNKNOWN"

(***************************************************************************)
(* C9.  Kleene logic: the value of an AND node is TRUE iff both operands   *)
(* are TRUE and FALSE iff either is FALSE; of an OR node TRUE iff either   *)
(* is TRUE and FALSE iff both are FALSE; of a NOT node the operand's value *)
(* with TRUE and FALSE swapped; of a PAREN node the operand's value; else  *)
(* UNKNOWN.                                                                *)
(***************************************************************************)
C9_Kleene ==
    pc = "evaluated" =>
        /\ value \in Truth
        /\ tree.operator = "FACT" => value = facts[tree.operand1]
        /\ tree.operator = "PAREN" => value = Evaluate(tree.operand1, facts)
        /\ tree.operator = "NOT" =>
               LET truth1 == Evaluate(tree.operand1, facts) IN
               /\ value = "TRUE" <=> truth1 = "FALSE"
               /\ value = "FALSE" <=> truth1 = "TRUE"
        /\ tree.operator = "AND" =>
               LET truth1 == Evaluate(tree.operand1, facts)
                   truth2 == Evaluate(tree.operand2, facts) IN
               /\ value = "TRUE" <=> (truth1 = "TRUE" /\ truth2 = "TRUE")
               /\ value = "FALSE" <=> (truth1 = "FALSE" \/ truth2 = "FALSE")
        /\ tree.operator = "OR" =>
               LET truth1 == Evaluate(tree.operand1, facts)
                   truth2 == Evaluate(tree.operand2, facts) IN
               /\ value = "TRUE" <=> (truth1 = "TRUE" \/ truth2 = "TRUE")
               /\ value = "FALSE" <=> (truth1 = "FALSE" /\ truth2 = "FALSE")

\* "a&b" evaluated with a UNKNOWN and b FALSE: the value is FALSE.
C9_Witness ==
    /\ pc = "evaluated"
    /\ expression = <<"a", "&", "b">>
    /\ facts[<<"a">>] = "UNKNOWN"
    /\ facts[<<"b">>] = "FALSE"
    /\ value = "FALSE"

(***************************************************************************)
(* C10.  Goal order: goals_reached is the goal rules in the order in which *)
(* they fired; two goal rules that fired in the same pass of the same call *)
(* are in load order.                                                      *)
(***************************************************************************)
IsGoalFiring(e) == rules[e.rule].is_goal /\ e.truth = "TRUE"

GoalFirings == SelectSeq(output, IsGoalFiring)

C10_GoalOrder ==
    /\ goals_reached = [k \in 1..Len(GoalFirings) |-> GoalFirings[k].rule]
    /\ \A j, k \in 1..Len(goals_reached) :
           (/\ j < k
            /\ FiringOf(goals_reached[j]).call = FiringOf(goals_reached[k]).call
            /\ FiringOf(goals_reached[j]).pass = FiringOf(goals_reached[k]).pass)
           => goals_reached[j] < goals_reached[k]

\* A goal rule loaded later fired in an earlier pass and precedes a goal rule
\* loaded earlier.
C10_Witness ==
    /\ pc = "done"
    /\ Len(goals_reached) = 2
    /\ goals_reached[1] > goals_reached[2]
    /\ FiringOf(goals_reached[1]).pass < FiringOf(goals_reached[2]).pass

(***************************************************************************)
(* C11.  End-to-end goal derivation: with the rules "has fur -> mammal"    *)
(* and "mammal & arboreal -> $squirrel", once has fur and arboreal have    *)
(* both been supplied as TRUE, in either order, and evaluate_rules has     *)
(* run (after each answer or only after both), goals_reached is exactly    *)
(* the squirrel rule, and mammal and squirrel are TRUE.                    *)
(***************************************************************************)
C11_SquirrelGoal ==
    (/\ RuleStrings = <<RuleMammal, RuleSquirrel>>
     /\ pc = "returned"
     /\ facts[HasFur] = "TRUE"
     /\ facts[Arboreal] = "TRUE")
    => /\ goals_reached = <<2>>
       /\ facts[Mammal] = "TRUE"
       /\ facts[Squirrel] = "TRUE"

\* arboreal was supplied first, has fur second, and evaluate_rules ran after each
\* of the two answers.
C11_Witness ==
    /\ RuleStrings = <<RuleMammal, RuleSquirrel>>
    /\ pc = "returned"
    /\ calls = 2
    /\ questions[question] = HasFur
    /\ facts[HasFur] = "TRUE"
    /\ facts[Arboreal] = "TRUE"
    /\ goals_reached = <<2>>

(***************************************************************************)
(* C12.  Parenthesis errors: the constructor raises, and produces no tree, *)
(* for every text in which some ")" has no "(" before it to match (Extra   *)
(* close paren) and for every text that ends with a "(" still open         *)
(* (Unclosed open paren).                                                  *)
(***************************************************************************)
\* The number of "(" minus the number of ")" among the first n characters of e.
Depth(e, n) ==
    Cardinality({i \in 1..n : e[i] = "("}) - Cardinality({i \in 1..n : e[i] = ")"})

UnmatchedClose(e) == \E n \in 1..Len(e) : Depth(e, n) < 0

UnclosedOpen(e) == Depth(e, Len(e)) > 0

C12_ParenErrors ==
    (pc # "text" /\ (UnmatchedClose(expression) \/ UnclosedOpen(expression)))
    => /\ pc = "raised"
       /\ tree.operator = "RAISED"
       /\ tree.operand1 = IF UnmatchedClose(expression) THEN "Extra close paren"
                          ELSE "Unclosed open paren"

\* "(a" was constructed and raised Unclosed open paren.
C12_Witness ==
    /\ pc = "raised"
    /\ expression = <<"(", "a">>
    /\ tree.operand1 = "Unclosed open paren"

(***************************************************************************)
(* C13.  Operators inside parentheses are never the split point: the root  *)
(* operator of a tree is an AND, OR or NOT only if its character stands    *)
(* outside all parentheses of the text.  "(a)" parses as PAREN(FACT a),    *)
(* "!(a & b)" as NOT(PAREN(AND(FACT a, FACT b))), and the value of the     *)
(* latter is the Kleene negation of a AND b for every assignment.          *)
(***************************************************************************)
\* The character of operator op stands at depth 0 somewhere in e.
AtDepthZero(e, op) ==
    \E i \in 1..Len(e) : /\ parse_operator(e[i]).op = op
                         /\ Depth(e, i - 1) = 0

Paren(inner) == [operator |-> "PAREN", operand1 |-> inner, operand2 |-> None]

Not(inner) == [operator |-> "NOT", operand1 |-> inner, operand2 |-> None]

C13_ParensShield ==
    /\ (pc \in {"constructed", "loaded", "evaluated"}
        /\ tree.operator \in {"AND", "OR", "NOT"})
       => AtDepthZero(expression, tree.operator)
    /\ (pc # "text" /\ expression = <<"(", "a", ")">>) => tree = Paren(Fact(<<"a">>))
    /\ (pc # "text" /\ expression = NotParenAB)
       => tree = Not(Paren(Binary("AND", Fact(<<"a">>), Fact(<<"b">>))))
    /\ (pc = "evaluated" /\ expression = NotParenAB)
       => value = IF facts[<<"a">>] = "FALSE" \/ facts[<<"b">>] = "FALSE" THEN "TRUE"
                  ELSE IF facts[<<"a">>] = "TRUE" /\ facts[<<"b">>] = "TRUE" THEN "FALSE"
                  ELSE "UNKNOWN"

\* "!(a & b)" was evaluated with a TRUE and b FALSE, and is TRUE.
C13_Witness ==
    /\ pc = "evaluated"
    /\ expression = NotParenAB
    /\ facts[<<"a">>] = "TRUE"
    /\ facts[<<"b">>] = "FALSE"
    /\ value = "TRUE"

(***************************************************************************)
(* C14.  The questions list holds exactly the antecedent fact names that   *)
(* are no rule's consequent, each once, in first-seen order: by the load   *)
(* order of the rules and, within a rule, by the place where the name      *)
(* first stands in the antecedent text.                                    *)
(***************************************************************************)
\* The fact names of an expression from left to right in its text.
RECURSIVE TextOrder(_)
TextOrder(self) ==
    IF self.operator = "FACT" THEN <<self.operand1>>
    ELSE IF self.operator \in {"PAREN", "NOT"} THEN TextOrder(self.operand1)
    ELSE TextOrder(self.operand1) \o TextOrder(self.operand2)

Min(S) == CHOOSE x \in S : \A y \in S : x <= y

\* The first rule whose antecedent names the fact, and the first place of the
\* name in that antecedent.
FirstRule(name) ==
    Min({i \in 1..Len(rules) : name \in list_facts(rules[i].antecedent)})

FirstPlace(name) ==
    LET order == TextOrder(rules[FirstRule(name)].antecedent)
    IN  Min({k \in 1..Len(order) : order[k] = name})

Consequents == {rules[i].consequent : i \in 1..Len(rules)}

AntecedentFacts == UNION {list_facts(rules[i].antecedent) : i \in 1..Len(rules)}

\* The part of the statement that does not depend on the order inside a rule.
QuestionsAreTheOpenFacts ==
    /\ {questions[k] : k \in 1..Len(questions)} = AntecedentFacts \ Consequents
    /\ \A j, k \in 1..Len(questions) : j # k => questions[j] # questions[k]
    /\ \A j, k \in 1..Len(questions) :
           j < k => FirstRule(questions[j]) <= FirstRule(questions[k])

\* The statement as made: the order inside a rule is the order of the text.
C14_Original ==
    /\ QuestionsAreTheOpenFacts
    /\ \A j, k \in 1..Len(questions) :
           (j < k /\ FirstRule(questions[j]) = FirstRule(questions[k]))
           => FirstPlace(questions[j]) < FirstPlace(questions[k])

(***************************************************************************)
(* C15.  Explanation timing: a step prints an explanation exactly when it  *)
(* is the evaluation of a rule that takes the rule's consequent from       *)
(* UNKNOWN to a known value; the explanation is of that rule, printed in   *)
(* that very step, before the next rule is looked at.  No rule and no fact *)
(* is explained twice in a run, and the explanation lists exactly the      *)
(* facts of the antecedent that are not UNKNOWN at that moment, with their *)
(* values.                                                                 *)
(***************************************************************************)
\* The step is the evaluation of rules[rule] and resolves its consequent.
Resolves ==
    /\ pc = "evaluate_rules"
    /\ rule <= Len(rules)
    /\ rule' = rule + 1
    /\ facts[rules[rule].consequent] = "UNKNOWN"
    /\ facts'[rules[rule].consequent] # "UNKNOWN"

\* e explains rules[rule] on the fact table the step leaves.
ExplainsTheStep(e) ==
    /\ e.rule = rule
    /\ e.call = calls
    /\ e.pass = passes
    /\ e.consequent = rules[rule].consequent
    /\ e.truth = facts'[rules[rule].consequent]
    /\ {e.listed[k].fact_name : k \in 1..Len(e.listed)}
           = {name \in list_facts(rules[rule].antecedent) : facts'[name] # "UNKNOWN"}
    /\ \A k \in 1..Len(e.listed) : e.listed[k].truth = facts'[e.listed[k].fact_name]
    /\ \A j, k \in 1..Len(e.listed) :
           j # k => e.listed[j].fact_name # e.listed[k].fact_name

C15_ExplainedOnce ==
    [][/\ Resolves <=> output' # output
       /\ output' # output
          => /\ Len(output') = Len(output) + 1
             /\ SubSeq(output', 1, Len(output)) = output
             /\ ExplainsTheStep(output'[Len(output')])
             /\ \A k \in 1..Len(output) :
                    /\ output[k].rule # rule
                    /\ output[k].consequent # rules[rule].consequent]_vars

\* A rule was explained while a fact of its antecedent was still UNKNOWN, so the
\* explanation lists fewer facts than the antecedent names; and a second rule was
\* explained after it.
C15_Witness ==
    /\ Len(output) >= 2
    /\ Len(output[1].listed) < Cardinality(list_facts(rules[output[1].rule].antecedent))

(***************************************************************************)
(* C16.  When the scan selects a NOT found at position best_i of the       *)
(* trimmed text, the NOT node's operand is the parse of the text after     *)
(* position best_i, wherever the "!" stands, also behind other text as in  *)
(* "a !b".                                                                 *)
(***************************************************************************)
\* The scan of the trimmed text neither raises nor leaves a "(" open, and selects a NOT.
SelectsNot(e) ==
    /\ ~Scan(e).raised
    /\ Scan(e).open_parens = 0
    /\ Scan(e).best_op = "NOT"

\* The text behind the operator character.
RemainderAfter(e, best_i) == Slice(e, best_i + 1, Len(e))

C16_Original ==
    (pc # "text" /\ SelectsNot(Strip(expression)))
    => tree = Node("NOT",
                   BoolExpression(RemainderAfter(Strip(expression),
                                                 Scan(Strip(expression)).best_i)),
                   None)

\* The same for a "!" that is the first character of the trimmed text.
C16_LeadingNot ==
    (pc # "text" /\ SelectsNot(Strip(expression)) /\ Scan(Strip(expression)).best_i = 0)
    => tree = Node("NOT", BoolExpression(RemainderAfter(Strip(expression), 0)), None)

\* "a !b" was parsed: the tree is NOT(NOT(FACT b)), and with b TRUE its value is
\* TRUE, where NOT b is FALSE.
C16_Witness ==
    /\ pc = "evaluated"
    /\ expression = ANotB
    /\ tree = Not(Not(Fact(<<"b">>)))
    /\ facts[<<"b">>] = "TRUE"
    /\ value = "TRUE"

(***************************************************************************)
(* C17.  The question loop: solve asks only about a fact that is UNKNOWN   *)
(* at that moment and only while no goal has been reached; an answer       *)
(* changes at most that fact; every y, n or ? answer is followed by a call *)
(* of evaluate_rules, and no question is asked before that call has        *)
(* returned; solve ends only on a goal, after the last question, or on q,  *)
(* and q evaluates nothing any more.                                       *)
(***************************************************************************)
\* solve is waiting for the answer to questions[question].
Asking ==
    /\ question \in 1..Len(questions)
    /\ facts[questions[question]] = "UNKNOWN"
    /\ goals_reached = <<>>

\* A step out of the input loop: an answer, followed by evaluate_rules, or q.
AnswerOrQuit ==
    /\ \A name \in DOMAIN facts : name # questions[question] => facts'[name] = facts[name]
    /\ \/ /\ pc' = "evaluate_rules"
          /\ calls' = calls + 1
          /\ rule' = 1
          /\ passes' = 1
       \/ /\ pc' = "done"
          /\ UNCHANGED <<facts, goals_reached, calls, passes, output>>

\* A step into the input loop or to the end of solve, out of evaluate_rules: the
\* call has returned.
AfterTheCall ==
    /\ rule > Len(rules)
    /\ ~had_change
    /\ UNCHANGED <<facts, goals_reached, calls>>
    /\ pc' = "input" => /\ goals_reached = <<>>
                        /\ question' > question
    /\ pc' = "done" => \/ Len(goals_reached) > 0
                       \/ question = Len(questions)

C17_QuestionLoop ==
    /\ [](pc = "input" => Asking)
    /\ [][/\ pc = "input" => AnswerOrQuit
          /\ (pc = "evaluate_rules" /\ pc' # "evaluate_rules") => AfterTheCall
          /\ pc = "done" => UNCHANGED vars]_vars

\* The user answered the first question, evaluate_rules ran without reaching a
\* goal, and the user quit at the second question, which is still UNKNOWN.
C17_Witness ==
    /\ pc = "done"
    /\ calls = 1
    /\ question = 2
    /\ goals_reached = <<>>
    /\ facts[questions[1]] # "UNKNOWN"
    /\ facts[questions[2]] = "UNKNOWN"

(***************************************************************************)
(* C18.  Rule-order confluence: when no two rules of the list have the     *)
(* same consequent, a call of evaluate_rules leaves the same fact table,   *)
(* and the same set of goal rules, for every permutation of the rule list  *)
(* started on the same fact table; the number of passes may differ.        *)
(***************************************************************************)
\* The rule list in the order p, a permutation of its indices.
Permuted(p) == [k \in 1..Len(rules) |-> rules[p[k]]]

\* evaluate_rules on the permuted list, from the current fact table and goal list.
PermutedCall(p) == evaluate_rules(Permuted(p), facts, goals_reached)

GoalRules(rs, goals) == {rs[goals[k]].rule_string : k \in 1..Len(goals)}

C18_Confluence ==
    [][(pc' = "returned" /\ DistinctConsequents)
       => \A p \in Permutations(1..Len(rules)) :
          \E res \in {PermutedCall(p)} :
              /\ res.facts = facts'
              /\ GoalRules(Permuted(p), res.goals_reached)
                     = GoalRules(rules, goals_reached')]_vars

\* The squirrel rule stands before the mammal rule it depends on: the call took
\* three passes to the table on which the list in the other order takes two.
C18_Witness ==
    /\ pc = "returned"
    /\ RuleStrings = <<RuleSquirrel, RuleMammal>>
    /\ passes = 3
    /\ facts[Squirrel] = "TRUE"
    /\ goals_reached = <<1>>
    /\ evaluate_rules(<<rules[2], rules[1]>>,
                      [facts EXCEPT ![Mammal] = "UNKNOWN", ![Squirrel] = "UNKNOWN"],
                      <<>>)
           = [facts |-> facts, goals_reached |-> <<2>>, passes |-> 2]

(***************************************************************************)
(* C19.  At most one goal with the shipped rule base: whatever the user    *)
(* answers, and in whichever order the questions of one rule are asked,    *)
(* goals_reached never holds more than one rule, so the report of several  *)
(* animals (lines 461-465) is never printed.  No call of evaluate_rules is  *)
(* cut short by the cap on the passes.                                     *)
(***************************************************************************)
C19_AtMostOneGoal ==
    /\ Len(goals_reached) <= 1
    /\ passes < MaxPasses

\* solve has returned with the squirrel as the one goal, and breathes water was
\* asked before scaled.
C19_Witness ==
    /\ pc = "done"
    /\ Len(goals_reached) = 1
    /\ rules[goals_reached[1]].consequent = Squirrel
    /\ \E j, k \in 1..Len(questions) :
           /\ j < k
           /\ questions[j] = <<"b", "r", "e", "a", "t", "h", "e", "s", " ", "w", "a", "t",
                               "e", "r">>
           /\ questions[k] = <<"s", "c", "a", "l", "e", "d">>

====
